---------------------------- MODULE Spec2Model ----------------------------
(***************************************************************************)
(* dsym_to_index_ranges.py: from the textual dumps of .debug_ranges and    *)
(* .debug_info to the sorted list of named address ranges of one image.    *)
(*                                                                         *)
(* Text is modelled by what the regular expressions of the script see: a   *)
(* line of the ranges dump is the sequence of its whitespace-separated     *)
(* tokens, a token is a sequence of one-character strings.  A Python dict  *)
(* is a function whose DOMAIN is the set of its keys; None is the empty    *)
(* sequence and a present value v is <<v>>.                                *)
(***************************************************************************)
EXTENDS Integers, Sequences, FiniteSets, TLC

VARIABLES
    pc,          \* position of the script: "dr", "di", "probe", "emit", "resolve", "finish", "sort", "done", "raised"
    dr_file,     \* args.dr: the lines of the ranges dump
    dr_pos,      \* index of the next line of dr_file the loop reads
    ranges_map,  \* offset -> list of (s, e)
    pairs,       \* number of pairs appended
    di_n,        \* number of lines of args.di read so far
    raw,         \* the line of args.di read last (None before the first)
    cur,         \* the entry under construction (None, or Some(dict))
    dies,        \* the closed entries, in order
    name_map,    \* the rename map (empty when absent or unreadable)
    dies_by_off, \* offset -> entry
    do_demangle, \* args.do_demangle
    swift_ok,    \* _swift_ok
    cache,       \* lru_cache of swift_demangle_one: <<key, value>>, most recent first
    i,           \* index in dies of the entry the emission loop is at
    stack,       \* the frames of resolve_name, innermost last
    seen,        \* the visited set of the running top-level resolve_name call
    ret,         \* the value the last resolve_name call returned
    out,         \* what the last invocation of the external tool did (None: not invoked in this iteration)
    name,        \* the loop variable name of the emission
    funcs,       \* the accumulated FunctionRanges, in emission order
    miss_name,   \* emittable intervals without a name
    output       \* the printed record (None before the print)

varsDR == <<dr_file, dr_pos, ranges_map, pairs>>
varsDI == <<di_n, raw, cur, dies>>
varsEnv == <<name_map, do_demangle>>
varsEmit == <<dies_by_off, swift_ok, cache, i, stack, seen, ret, out, name, funcs, miss_name, output>>
vars == <<pc, varsDR, varsDI, varsEnv, varsEmit>>

\* ------------------------------------------------------------- Python values
None == <<>>
Some(v) == <<v>>

\* d with d[k] = v (the key is added when absent)
DictSet(d, k, v) == [x \in DOMAIN d \cup {k} |-> IF x = k THEN v ELSE d[x]]

EmptyDict == [x \in {} |-> 0]

\* ------------------------------------------------------------- characters
Digits == {"0", "1", "2", "3", "4", "5", "6", "7", "8", "9"}
LowerHex == {"a", "b", "c", "d", "e", "f"}
UpperHex == {"A", "B", "C", "D", "E", "F"}
HexChars == Digits \cup LowerHex \cup UpperHex

\* str.lower() on one character
LowerChar(c) ==
    CASE c = "A" -> "a" [] c = "B" -> "b" [] c = "C" -> "c"
      [] c = "D" -> "d" [] c = "E" -> "e" [] c = "F" -> "f"
      [] c = "X" -> "x" [] c = "G" -> "g"
      [] OTHER -> c

Lower(tok) == [k \in 1..Len(tok) |-> LowerChar(tok[k])]

HexDigitValue(c) ==
    CASE c = "0" -> 0 [] c = "1" -> 1 [] c = "2" -> 2 [] c = "3" -> 3
      [] c = "4" -> 4 [] c = "5" -> 5 [] c = "6" -> 6 [] c = "7" -> 7
      [] c = "8" -> 8 [] c = "9" -> 9
      [] c \in {"a", "A"} -> 10 [] c \in {"b", "B"} -> 11
      [] c \in {"c", "C"} -> 12 [] c \in {"d", "D"} -> 13
      [] c \in {"e", "E"} -> 14 [] c \in {"f", "F"} -> 15

RECURSIVE HexDigitsValue(_)
HexDigitsValue(tok) ==
    IF tok = <<>> THEN 0
    ELSE 16 * HexDigitsValue(SubSeq(tok, 1, Len(tok) - 1)) + HexDigitValue(tok[Len(tok)])

AllIn(tok, S) == \A k \in 1..Len(tok) : tok[k] \in S

StartsWith0x(tok) == Len(tok) >= 2 /\ tok[1] = "0" /\ tok[2] = "x"

\* int(t, 16) succeeds; the tokens that reach it are made of the characters
\* of AddrChars, lowered: an optional 0x and then at least one hex digit.
IntBase16Ok(tok) ==
    LET body == IF StartsWith0x(tok) THEN SubSeq(tok, 3, Len(tok)) ELSE tok
    IN  body # <<>> /\ AllIn(body, HexChars)

IntBase16(tok) ==
    HexDigitsValue(IF StartsWith0x(tok) THEN SubSeq(tok, 3, Len(tok)) ELSE tok)

\* ------------------------------------------------------------- ranges dump
OffMinLen == 4
AddrChars == HexChars \cup {"x"}

\* the longest prefix of tok made of characters of S
RECURSIVE PrefixIn(_, _)
PrefixIn(tok, S) ==
    IF tok = <<>> \/ tok[1] \notin S THEN <<>>
    ELSE <<tok[1]>> \o PrefixIn(Tail(tok), S)

\* rx_dr.match(raw): None, or the three groups
rx_dr(line) ==
    IF /\ Len(line) >= 3
       /\ Len(line[1]) >= OffMinLen /\ AllIn(line[1], HexChars)
       /\ line[2] # <<>> /\ AllIn(line[2], AddrChars)
       /\ PrefixIn(line[3], AddrChars) # <<>>
    THEN Some(<<line[1], line[2], PrefixIn(line[3], AddrChars)>>)
    ELSE None

With0x(tok) == IF StartsWith0x(tok) THEN tok ELSE <<"0", "x">> \o tok

\* IsSentinel when one zero is enough
SentinelMut(s, e) == s = 0 \/ e = 0

IsSentinel(s, e) == s = 0 /\ e = 0

\* ranges_map.setdefault(off, []).append((s, e))
RangesAppend(m, off, s, e) ==
    DictSet(m, off, (IF off \in DOMAIN m THEN m[off] ELSE <<>>) \o << <<s, e>> >>)

\* one iteration of the loop over the ranges dump, on the state
\* st = [map, pairs, raised]
DRBody(st, line) ==
    LET m == rx_dr(line) IN
    IF m = None THEN st
    ELSE
        LET off == IntBase16(m[1][1])
            a == With0x(Lower(m[1][2]))
            b == With0x(Lower(m[1][3]))
        IN  IF ~(IntBase16Ok(a) /\ IntBase16Ok(b))
            THEN [st EXCEPT !.raised = TRUE]
            ELSE IF IsSentinel(IntBase16(a), IntBase16(b)) THEN st
            ELSE [map |-> RangesAppend(st.map, off, IntBase16(a), IntBase16(b)),
                  pairs |-> st.pairs + 1,
                  raised |-> FALSE]

\* ------------------------------------------------------------- debug-info dump
\* A line of the debug-info dump is the dict of the regular expressions that
\* find something in it, each with what it captures:
\*   tag (rx_any_tag, group 2), off (rx_die_off, looked for on a tag line),
\*   low (rx_low), hia (rx_hia), hiud (rx_hiud), ranges (rx_ranges),
\*   name (rx_name), link (rx_link), abs (rx_abs), spec (rx_spec).
\* Hexadecimal captures are given by their value; "(.+?)" captures at least
\* one character, so a captured name is never empty.

\* HighFromDelta when the delta is taken for the address
HighFromDeltaMut(low, delta) == delta

\* cur['low'] + int(m.group(1))
HighFromDelta(low, delta) == low + delta

\* one iteration of the loop over the debug-info dump, on st = [cur, dies]
DIBody(st, line) ==
    IF "tag" \in DOMAIN line THEN
        [dies |-> IF st.cur # None THEN Append(st.dies, st.cur[1]) ELSE st.dies,
         cur |-> Some(IF "off" \in DOMAIN line
                      THEN DictSet([tag |-> line.tag], "off", line.off)
                      ELSE [tag |-> line.tag])]
    ELSE IF st.cur = None THEN st
    ELSE
        LET c == st.cur[1]
            set(k, v) == [st EXCEPT !.cur = Some(DictSet(c, k, v))]
        IN  IF "low" \in DOMAIN line THEN set("low", line.low)
            ELSE IF "hia" \in DOMAIN line /\ "low" \in DOMAIN c
                 THEN set("high", line.hia)
            ELSE IF "hiud" \in DOMAIN line /\ "low" \in DOMAIN c
                 THEN set("high", HighFromDelta(c.low, line.hiud))
            ELSE IF "ranges" \in DOMAIN line THEN set("ranges_off", line.ranges)
            ELSE IF "name" \in DOMAIN line THEN set("name", line.name)
            ELSE IF "link" \in DOMAIN line /\ "name" \notin DOMAIN c
                 THEN set("name", line.link)
            ELSE IF "abs" \in DOMAIN line THEN set("abs", line.abs)
            ELSE IF "spec" \in DOMAIN line THEN set("spec", line.spec)
            ELSE st

\* { d['off']: d for d in dies if 'off' in d }: the last entry of an offset wins
IndexByOff(ds) ==
    LET offs == { ds[k].off : k \in { j \in 1..Len(ds) : "off" \in DOMAIN ds[j] } }
        last(o) == CHOOSE k \in 1..Len(ds) :
                      /\ "off" \in DOMAIN ds[k] /\ ds[k].off = o
                      /\ \A j \in (k + 1)..Len(ds) :
                            ~("off" \in DOMAIN ds[j] /\ ds[j].off = o)
    IN  [o \in offs |-> ds[last(o)]]

\* ------------------------------------------------------------- names
\* d.get(k)
Get(d, k) == IF k \in DOMAIN d THEN Some(d[k]) ELSE None

\* name_map.get(n, n)
MapGet(m, n) == IF n \in DOMAIN m THEN m[n] ELSE n

\* the truth value of an optional string
Truthy(v) == v # None /\ v[1] # ""

\* Links in the other order
LinksMut == <<"spec", "abs">>

\* for k in ('abs','spec')
Links == <<"abs", "spec">>

\* SeenHas when the visited set is not looked at
SeenHasMut(s, ref) == FALSE

\* ref in seen
SeenHas(s, ref) == ref \in s

\* a frame of resolve_name: the entry d, the index k in Links of the link the
\* loop is at, and at: "entry" (before the test of d's own name), "loop"
\* (at the head of an iteration), "after" (the recursive call has returned)
Frame(d) == [d |-> d, k |-> 1, at |-> "entry"]

\* one step of the innermost frame of resolve_name, on
\* st = [stack, seen, ret]; the call has returned when the stack is empty
ResolveBody(st) ==
    LET n == Len(st.stack)
        f == st.stack[n]
        below == SubSeq(st.stack, 1, n - 1)
        return(v) == [st EXCEPT !.stack = below, !.ret = v]
        goto(k, at) == [st EXCEPT !.stack[n] = [f EXCEPT !.k = k, !.at = at]]
    IN  IF f.at = "entry" THEN
            IF Truthy(Get(f.d, "name"))
            THEN return(Some(MapGet(name_map, f.d.name)))
            ELSE goto(1, "loop")
        ELSE IF f.at = "after" THEN
            IF Truthy(st.ret)
            THEN return(Some(MapGet(name_map, st.ret[1])))
            ELSE goto(f.k + 1, "loop")
        ELSE IF f.k > Len(Links) THEN return(None)
        ELSE IF Links[f.k] \notin DOMAIN f.d THEN goto(f.k + 1, "loop")
        ELSE
            LET ref == f.d[Links[f.k]] IN
            IF SeenHas(st.seen, ref) THEN goto(f.k + 1, "loop")
            ELSE IF ref \in DOMAIN dies_by_off
            THEN [stack |-> Append(below, [f EXCEPT !.at = "after"])
                              \o <<Frame(dies_by_off[ref])>>,
                  seen |-> st.seen \cup {ref},
                  ret |-> st.ret]
            ELSE [stack |-> Append(below, [f EXCEPT !.k = f.k + 1]),
                  seen |-> st.seen \cup {ref},
                  ret |-> st.ret]

\* ------------------------------------------------------------- demangling
\* The names of the vocabulary are strings; SWIFT_MANGLED_RX.match(n) is the
\* set of those that start with $s, _$s, _T or $S.
MangledNames == {"$s4main3fooyyF", "_T04main3fooyyF"}

SWIFT_MANGLED_RX(n) == n \in MangledNames

\* has_swift_demangle(): shutil.which finds the prefix tool (which) and the
\* probe invocation raises or not (raises); its exit status is not looked at
has_swift_demangle(which, raises) == which /\ ~raises

\* str.strip() on the standard outputs of the vocabulary
Strip(s) ==
    CASE s = "\n" -> ""
      [] s = "main.foo()\n" -> "main.foo()"
      [] s = " error: no such tool\n" -> "error: no such tool"
      [] OTHER -> s

Stdouts == {"", "\n", "main.foo()\n", " error: no such tool\n"}

\* what one invocation of the external tool does: subprocess.run raises, or
\* it completes with an exit status and a standard output
Outcomes ==
    [raised : {TRUE}, rc : {0}, stdout : {""}]
    \cup [raised : {FALSE}, rc : {0, 1}, stdout : Stdouts]

\* the body of swift_demangle_one, the external tool doing outcome
DemangleBody(mangled, outcome) ==
    IF ~swift_ok THEN mangled
    ELSE IF ~SWIFT_MANGLED_RX(mangled) THEN mangled
    ELSE IF outcome.raised THEN mangled
    ELSE IF Strip(outcome.stdout) # "" THEN Strip(outcome.stdout) ELSE mangled

CacheMaxSize == 100000

CacheIndex(c, key) ==
    IF \E k \in 1..Len(c) : c[k][1] = key
    THEN CHOOSE k \in 1..Len(c) : c[k][1] = key
    ELSE 0

Without(c, k) == SubSeq(c, 1, k - 1) \o SubSeq(c, k + 1, Len(c))

\* the call reaches subprocess.run
Invokes(c, mangled) ==
    CacheIndex(c, mangled) = 0 /\ swift_ok /\ SWIFT_MANGLED_RX(mangled)

\* swift_demangle_one under lru_cache: [value, cache, out]
swift_demangle_one(c, mangled, outcome) ==
    LET k == CacheIndex(c, mangled) IN
    IF k # 0
    THEN [value |-> c[k][2], cache |-> <<c[k]>> \o Without(c, k), out |-> None]
    ELSE LET v == DemangleBody(mangled, outcome)
             added == << <<mangled, v>> >> \o c
         IN  [value |-> v,
              cache |-> IF Len(added) > CacheMaxSize
                        THEN SubSeq(added, 1, CacheMaxSize) ELSE added,
              out |-> IF Invokes(c, mangled) THEN Some(outcome) ELSE None]

\* maybe_demangle(name), name an optional string: [value, cache, out]
maybe_demangle(c, nm, outcome) ==
    IF ~Truthy(nm) THEN [value |-> nm, cache |-> c, out |-> None]
    ELSE LET r == swift_demangle_one(c, MapGet(name_map, nm[1]), outcome)
         IN  [value |-> Some(r.value), cache |-> r.cache, out |-> r.out]

\* ------------------------------------------------------------- emission
SubprogramLike == {"subprogram", "inlined_subroutine"}

\* Emittable when an empty interval passes
EmittableMut(s, e) == e >= s

\* d['high'] > d['low'], e > s
Emittable(s, e) == e > s

\* the intervals of entry d the emission loop considers, in its order
Intervals(d) ==
    (IF "low" \in DOMAIN d /\ "high" \in DOMAIN d /\ Emittable(d.low, d.high)
     THEN << <<d.low, d.high>> >> ELSE <<>>)
    \o
    (IF "ranges_off" \in DOMAIN d /\ d.ranges_off \in DOMAIN ranges_map
     THEN SelectSeq(ranges_map[d.ranges_off], LAMBDA p : Emittable(p[1], p[2]))
     ELSE <<>>)

\* Named when the empty string passes
NamedMut(nm) == nm # None

\* if name:
Named(nm) == Truthy(nm)

\* the FunctionRanges entry d appends to funcs under the name nm
Appended(d, nm) ==
    IF Named(nm)
    THEN [k \in 1..Len(Intervals(d)) |->
            [start |-> Intervals(d)[k][1], end |-> Intervals(d)[k][2], name |-> nm[1]]]
    ELSE <<>>

\* what entry d adds to miss_name under the name nm
Missed(d, nm) == IF Named(nm) THEN 0 ELSE Len(Intervals(d))

\* KeyLE when the end is not part of the key
KeyLEMut(a, b) == a.start <= b.start

\* (a.start, a.end) <= (b.start, b.end)
KeyLE(a, b) == a.start < b.start \/ (a.start = b.start /\ a.end <= b.end)

\* x put into the sorted list fs after the elements that do not come after it
RECURSIVE InsertSorted(_, _)
InsertSorted(fs, x) ==
    IF fs = <<>> THEN <<x>>
    ELSE IF KeyLE(fs[1], x) THEN <<fs[1]>> \o InsertSorted(Tail(fs), x)
    ELSE <<x>> \o fs

\* funcs.sort(key=lambda x: (x['start'], x['end'])): the stable sort
RECURSIVE SortFuncs(_)
SortFuncs(fs) ==
    IF fs = <<>> THEN <<>>
    ELSE InsertSorted(SortFuncs(SubSeq(fs, 1, Len(fs) - 1)), fs[Len(fs)])

Args == [image |-> "App", uuid |-> "0000", arch |-> "arm64"]

\* ------------------------------------------------------------- inputs
MaxDRLines == 3

Tok(o) == IF o = 16 THEN <<"0", "0", "1", "0">> ELSE <<"0", "0", "2", "0">>

DRLines ==
    { <<Tok(16), <<"0", "x", "0">>, <<"0", "x", "0">> >>,
      <<Tok(16), <<"0">>, <<"0", "0">> >>,
      <<Tok(16), <<"0", "x", "0">>, <<"0", "x", "1">> >>,
      << <<"0", "0", "0", "1", "0">>, <<"1">>, <<"0">> >>,
      <<Tok(16), <<"0", "x", "1">>, <<"2">> >>,
      <<Tok(32), <<"F">>, <<"0", "x", "a">> >>,
      <<Tok(32), <<"0", "x", "0">>, <<"0", "x", "0">> >>,
      <<Tok(16), <<"0", "x">>, <<"0", "x", "1">> >>,
      <<Tok(32), <<"0", "x", "1">>, <<"1", "x", "2">> >>,
      <<Tok(16), <<"0", "X", "1">>, <<"0", "x", "1">> >>,
      <<Tok(16), <<"0", "x", "2">>, <<"0", "X", "1">> >>,
      <<Tok(32), <<"0", "x", "2">>, <<"1", "g">> >>,
      <<Tok(16), <<"1">>, <<"g">> >>,
      << <<"0", "1", "0">>, <<"0", "x", "1">>, <<"0", "x", "2">> >>,
      <<Tok(16), <<"0", "x", "1">> >>,
      << <<"0", "0", "g", "0">>, <<"1">>, <<"2">> >> }

SeqsUpTo(S, n) == UNION { [1..k -> S] : k \in 0..n }

\* the pass over a whole ranges dump
RECURSIVE DRRun(_)
DRRun(file) ==
    IF file = <<>> THEN [map |-> EmptyDict, pairs |-> 0, raised |-> FALSE]
    ELSE LET st == DRRun(SubSeq(file, 1, Len(file) - 1))
         IN  IF st.raised THEN st ELSE DRBody(st, file[Len(file)])

\* "001000  0x0  0x0", "001000  0x100  0x200", three lines of offset 0x10
\* and one of offset 0x20
Tok0x1000 == <<"0", "0", "1", "0", "0", "0">>
Tok0x10 == <<"0", "0", "1", "0">>

ExampleDump ==
    << <<Tok0x1000, <<"0", "x", "0">>, <<"0", "x", "0">> >>,
       <<Tok0x1000, <<"0", "x", "1", "0", "0">>, <<"0", "x", "2", "0", "0">> >>,
       <<Tok0x10, <<"0", "x", "1">>, <<"0", "x", "3">> >>,
       <<Tok0x10, <<"7">>, <<"7">> >>,
       <<Tok0x10, <<"0", "x", "5">>, <<"0", "x", "9">> >>,
       << <<"0", "0", "2", "0">>, <<"5">>, <<"7">> >> >>

MaxDILines == 4

NoMatch == EmptyDict

DILines ==
    { [tag |-> "subprogram", off |-> 1],
      [tag |-> "variable"],
      [low |-> 2], [low |-> 5],
      [hia |-> 4], [hiud |-> 3], [hiud |-> 0],
      [name |-> "f"],
      [link |-> "$s4main3fooyyF"],
      [ranges |-> 16],
      [abs |-> 1],
      [spec |-> 1],
      [hia |-> 4, name |-> "g"],
      NoMatch }

MaxDies == 2

EmitDies ==
    { [tag |-> "subprogram", off |-> 1, name |-> "obf", low |-> 1, high |-> 3],
      [tag |-> "subprogram", off |-> 2, abs |-> 1, low |-> 5, high |-> 9, ranges_off |-> 16],
      [tag |-> "subprogram", name |-> "$s4main3fooyyF", low |-> 1, high |-> 3, ranges_off |-> 16],
      [tag |-> "inlined_subroutine", low |-> 3, high |-> 3],
      [tag |-> "subprogram", ranges_off |-> 16],
      [tag |-> "subprogram", off |-> 16, name |-> "foo", ranges_off |-> 4096],
      [tag |-> "variable", off |-> 1, name |-> "Original", low |-> 1, high |-> 3],
      [tag |-> "inlined_subroutine", name |-> "Original", low |-> 4, high |-> 2, ranges_off |-> 32] }

NameMaps ==
    { EmptyDict,
      [obf |-> "Original"],
      [obf |-> "Original", Original |-> "X"],
      [obf |-> ""],
      [obf |-> "_T04main3fooyyF"] }

MaxResolveDies == 3

\* what an entry of a reference graph has besides its tag, offset and addresses
ResolveShapes ==
    { [tag |-> "subprogram"],
      [tag |-> "variable", name |-> "a"],
      [tag |-> "subprogram", name |-> "b"],
      [tag |-> "subprogram", abs |-> 1],
      [tag |-> "subprogram", abs |-> 2],
      [tag |-> "subprogram", abs |-> 3],
      [tag |-> "subprogram", abs |-> 9],
      [tag |-> "subprogram", spec |-> 2],
      [tag |-> "subprogram", abs |-> 2, spec |-> 3],
      [tag |-> "subprogram", abs |-> 2, spec |-> 1],
      [tag |-> "subprogram", abs |-> 9, spec |-> 2] }

\* the entries of a reference graph: the k-th has offset k and [k, k + 1)
ResolveDies(shapes) ==
    [k \in 1..Len(shapes) |-> shapes[k] @@ [off |-> k, low |-> k, high |-> k + 1]]

ResolveMaps == { [b |-> "c"], [a |-> "b", b |-> ""] }

\* ------------------------------------------------------------- actions
\* the state before the first line of either dump is read
Start ==
    /\ dr_pos = 1
    /\ ranges_map = EmptyDict
    /\ pairs = 0
    /\ di_n = 0
    /\ raw = None
    /\ cur = None
    /\ dies = <<>>
    /\ dies_by_off = EmptyDict
    /\ swift_ok = FALSE
    /\ cache = <<>>
    /\ i = 1
    /\ stack = <<>>
    /\ seen = {}
    /\ ret = None
    /\ out = None
    /\ name = None
    /\ funcs = <<>>
    /\ miss_name = 0
    /\ output = None

InitDR ==
    /\ pc = "dr"
    /\ dr_file \in SeqsUpTo(DRLines, MaxDRLines)
    /\ name_map = EmptyDict
    /\ do_demangle = TRUE
    /\ Start

\* the state after the pass over the ranges dump file
AfterDR(file) ==
    /\ dr_file = file
    /\ dr_pos = Len(file) + 1
    /\ ranges_map = DRRun(file).map
    /\ pairs = DRRun(file).pairs
    /\ swift_ok = FALSE
    /\ cache = <<>>
    /\ i = 1
    /\ stack = <<>>
    /\ seen = {}
    /\ ret = None
    /\ out = None
    /\ name = None
    /\ funcs = <<>>
    /\ miss_name = 0
    /\ output = None

\* the state after the pass over a debug-info dump that gives the entries ds
\* (raw and di_n, which nothing reads after the pass, stay as at the start)
AfterDI(ds) ==
    /\ di_n = 0
    /\ raw = None
    /\ cur = IF ds = <<>> THEN None ELSE Some(ds[Len(ds)])
    /\ dies = ds
    /\ dies_by_off = IndexByOff(ds)

InitDI ==
    /\ pc = "di"
    /\ AfterDR(ExampleDump)
    /\ name_map = EmptyDict
    /\ do_demangle = TRUE
    /\ di_n = 0
    /\ raw = None
    /\ cur = None
    /\ dies = <<>>
    /\ dies_by_off = EmptyDict

InitEmit ==
    /\ pc = "probe"
    /\ \E file \in {<<>>, ExampleDump} : AfterDR(file)
    /\ \E ds \in SeqsUpTo(EmitDies, MaxDies) : AfterDI(ds)
    /\ name_map \in NameMaps
    /\ do_demangle \in BOOLEAN

InitResolve ==
    /\ pc = "probe"
    /\ AfterDR(ExampleDump)
    /\ \E shapes \in SeqsUpTo(ResolveShapes, MaxResolveDies) : AfterDI(ResolveDies(shapes))
    /\ name_map \in ResolveMaps
    /\ do_demangle = FALSE

\* for raw in f: one line of the ranges dump
DRLine ==
    /\ pc = "dr"
    /\ dr_pos <= Len(dr_file)
    /\ LET st == DRBody([map |-> ranges_map, pairs |-> pairs, raised |-> FALSE],
                        dr_file[dr_pos])
       IN  /\ ranges_map' = st.map
           /\ pairs' = st.pairs
           /\ pc' = IF st.raised THEN "raised" ELSE "dr"
    /\ dr_pos' = dr_pos + 1
    /\ UNCHANGED <<dr_file, varsDI, varsEnv, varsEmit>>

\* the loop over the ranges dump ends
DREnd ==
    /\ pc = "dr"
    /\ dr_pos > Len(dr_file)
    /\ pc' = "di"
    /\ UNCHANGED <<varsDR, varsDI, varsEnv, varsEmit>>

NextDR == DRLine \/ DREnd

SpecDR == InitDR /\ [][NextDR]_vars


\* for raw in f: one line of the debug-info dump
DILine ==
    /\ pc = "di"
    /\ di_n < MaxDILines
    /\ \E line \in DILines :
          LET st == DIBody([cur |-> cur, dies |-> dies], line)
          IN  /\ raw' = Some(line)
              /\ cur' = st.cur
              /\ dies' = st.dies
    /\ di_n' = di_n + 1
    /\ UNCHANGED <<pc, varsDR, varsEnv, varsEmit>>

\* the debug-info dump ends: the open entry is closed and the index is built
DIEnd ==
    /\ pc = "di"
    /\ dies' = IF cur # None THEN Append(dies, cur[1]) ELSE dies
    /\ dies_by_off' = IndexByOff(dies')
    /\ pc' = "probe"
    /\ UNCHANGED <<varsDR, di_n, raw, cur, varsEnv, swift_ok, cache, i, stack, seen,
                   ret, out, name, funcs, miss_name, output>>

\* _swift_ok = args.do_demangle and has_swift_demangle()
Probe ==
    /\ pc = "probe"
    /\ \E which \in BOOLEAN, raises \in BOOLEAN :
          swift_ok' = (do_demangle /\ has_swift_demangle(which, raises))
    /\ pc' = "emit"
    /\ UNCHANGED <<varsDR, varsDI, varsEnv, dies_by_off, cache, i, stack, seen, ret,
                   out, name, funcs, miss_name, output>>

\* for d in dies: the head of the emission loop, up to the call of resolve_name
EmitLoop ==
    /\ pc = "emit"
    /\ IF i > Len(dies)
       THEN /\ pc' = "sort"
            /\ UNCHANGED <<i, stack, seen>>
       ELSE IF dies[i].tag \notin SubprogramLike
       THEN /\ i' = i + 1
            /\ UNCHANGED <<pc, stack, seen>>
       ELSE /\ stack' = <<Frame(dies[i])>>
            /\ seen' = {}
            /\ pc' = "resolve"
            /\ UNCHANGED i
    /\ UNCHANGED <<varsDR, varsDI, varsEnv, dies_by_off, swift_ok, cache, ret, out,
                   name, funcs, miss_name, output>>

\* one step of resolve_name
ResolveStep ==
    /\ pc = "resolve"
    /\ LET st == ResolveBody([stack |-> stack, seen |-> seen, ret |-> ret])
       IN  /\ stack' = st.stack
           /\ seen' = st.seen
           /\ ret' = st.ret
           /\ pc' = IF st.stack = <<>> THEN "finish" ELSE "resolve"
    /\ UNCHANGED <<varsDR, varsDI, varsEnv, dies_by_off, swift_ok, cache, i, out,
                   name, funcs, miss_name, output>>

\* the rest of the iteration for dies[i]: the name, its demangling, the ranges
Finish ==
    /\ pc = "finish"
    /\ \E outcome \in Outcomes :
          LET d == dies[i]
              nm == IF Truthy(ret) THEN ret ELSE Get(d, "name")
              r == maybe_demangle(cache, nm, outcome)
              final == IF Truthy(nm) THEN r.value ELSE None
          IN  /\ name' = final
              /\ cache' = r.cache
              /\ out' = r.out
              /\ funcs' = funcs \o Appended(d, final)
              /\ miss_name' = miss_name + Missed(d, final)
    /\ i' = i + 1
    /\ pc' = "emit"
    /\ UNCHANGED <<varsDR, varsDI, varsEnv, dies_by_off, swift_ok, stack, seen, ret,
                   output>>

\* funcs.sort(...) and the print of the record
Sort ==
    /\ pc = "sort"
    /\ funcs' = SortFuncs(funcs)
    /\ output' = Some([image |-> Args.image, uuid |-> Args.uuid, arch |-> Args.arch,
                       functions |-> funcs'])
    /\ pc' = "done"
    /\ UNCHANGED <<varsDR, varsDI, varsEnv, dies_by_off, swift_ok, cache, i, stack,
                   seen, ret, out, name, miss_name>>

NextEmit == Probe \/ EmitLoop \/ ResolveStep \/ Finish \/ Sort

NextDI == DILine \/ DIEnd \/ NextEmit

SpecDI == InitDI /\ [][NextDI]_vars

SpecEmit == InitEmit /\ [][NextEmit]_vars

SpecResolve == InitResolve /\ [][NextEmit]_vars

\* ------------------------------------------------------------- C1
\* the pair a recognized line gives, and its offset
LinePair(line) ==
    <<IntBase16(With0x(Lower(rx_dr(line)[1][2]))),
      IntBase16(With0x(Lower(rx_dr(line)[1][3])))>>

LineOff(line) == IntBase16(rx_dr(line)[1][1])

\* the pairs of the recognized lines of file whose offset is K, in the order
\* of the lines, without the pairs that are zero twice
PairsUnder(file, K) ==
    LET ls == SelectSeq(file, LAMBDA l :
                  rx_dr(l) # None /\ LineOff(l) = K /\ LinePair(l) # <<0, 0>>)
    IN  [k \in 1..Len(ls) |-> LinePair(ls[k])]

Stored(K) == IF K \in DOMAIN ranges_map THEN ranges_map[K] ELSE <<>>

FileOffsets(file) ==
    { LineOff(file[k]) : k \in { j \in 1..Len(file) : rx_dr(file[j]) # None } }

\* C1: when the pass over the ranges dump has finished, the list stored under
\* every offset K is the sequence of the pairs of the recognized lines of
\* offset K, in encounter order, without the (0,0) pairs; and at no time does
\* the table hold a (0,0) pair or an empty list.
C1_RangeTable ==
    /\ pc = "di" =>
          \A K \in FileOffsets(dr_file) \cup DOMAIN ranges_map :
              Stored(K) = PairsUnder(dr_file, K)
    /\ \A K \in DOMAIN ranges_map :
          /\ ranges_map[K] # <<>>
          /\ \A k \in 1..Len(ranges_map[K]) : ranges_map[K][k] # <<0, 0>>

\* a dump with a sentinel line and two kept lines of the same offset, one of
\* them with a single zero, has been read to its end
C1_Witness ==
    /\ pc = "di"
    /\ \E k \in 1..Len(dr_file) :
          rx_dr(dr_file[k]) # None /\ LineOff(dr_file[k]) = 16
              /\ LinePair(dr_file[k]) = <<0, 0>>
    /\ 16 \in DOMAIN ranges_map
    /\ Len(ranges_map[16]) = 2
    /\ ranges_map[16][1] # ranges_map[16][2]
    /\ \E k \in 1..2 : ranges_map[16][k][1] = 0 \/ ranges_map[16][k][2] = 0

\* ------------------------------------------------------------- C9
\* C9: the pass over the ranges dump never raises, whatever the lines are.
C9_NeverRaises == pc # "raised"

\* ------------------------------------------------------------- C5
\* a line on which the loop gets as far as the high-address expressions
HighLine(line) ==
    /\ "tag" \notin DOMAIN line /\ "low" \notin DOMAIN line
    /\ "hia" \in DOMAIN line \/ "hiud" \in DOMAIN line

\* the step reads a high-address line
ReadsHighLine == pc = "di" /\ di_n' = di_n + 1 /\ HighLine(raw'[1])

HighOf(c) == IF c = None THEN None ELSE Get(c[1], "high")

\* the number of pairs (s, e) with e > s under the rangesOffset of d
ValidPairs(d) ==
    IF "ranges_off" \in DOMAIN d /\ d.ranges_off \in DOMAIN ranges_map
    THEN Cardinality({ k \in 1..Len(ranges_map[d.ranges_off]) :
                          ranges_map[d.ranges_off][k][2] > ranges_map[d.ranges_off][k][1] })
    ELSE 0

HasWidth(d) == "low" \in DOMAIN d /\ "high" \in DOMAIN d /\ d.high > d.low

\* C5: a high-address line leaves high as it is unless low is set on the open
\* entry, and then sets it to the absolute address or to low + delta; no entry
\* has high without low; and the iteration of the emission loop for an entry
\* appends one range more than the valid pairs of its ranges list only when
\* its high is greater than its low.
C5_High ==
    /\ [][ReadsHighLine =>
            IF cur = None \/ "low" \notin DOMAIN cur[1]
            THEN HighOf(cur') = HighOf(cur) /\ HighOf(cur') = None
            ELSE /\ cur'[1].low = cur[1].low
                 /\ cur'[1].high = IF "hia" \in DOMAIN raw'[1] THEN raw'[1].hia
                                   ELSE cur[1].low + raw'[1].hiud]_vars
    /\ [](\A k \in 1..Len(dies) : "high" \in DOMAIN dies[k] => "low" \in DOMAIN dies[k])
    /\ [][pc = "finish" =>
            /\ Len(funcs') - Len(funcs) <= ValidPairs(dies[i]) + 1
            /\ Len(funcs') - Len(funcs) > ValidPairs(dies[i]) => HasWidth(dies[i])]_vars

\* the dump ended on a delta line of a named subprogram whose low is 2: the
\* entry has high 5 and its range is in the output
C5_Witness ==
    /\ pc = "done"
    /\ raw = Some([hiud |-> 3])
    /\ dies # <<>>
    /\ Get(dies[Len(dies)], "low") = Some(2)
    /\ Get(dies[Len(dies)], "high") = Some(5)
    /\ \E k \in 1..Len(funcs) : funcs[k].start = 2 /\ funcs[k].end = 5

\* ------------------------------------------------------------- C4
\* the ranges the step appends to funcs
NewFuncs == SubSeq(funcs', Len(funcs) + 1, Len(funcs'))

\* the pairs (s, e) with e > s under the rangesOffset of d, in their order
ValidPairSeq(d) ==
    IF "ranges_off" \in DOMAIN d /\ d.ranges_off \in DOMAIN ranges_map
    THEN SelectSeq(ranges_map[d.ranges_off], LAMBDA p : p[2] > p[1])
    ELSE <<>>

Range(s, e, n) == [start |-> s, end |-> e, name |-> n]

\* C4: the iteration of the emission loop for an entry with a name appends the
\* range of its direct low/high when high > low, and after it one range for
\* every pair (s, e) with e > s of its ranges list, all under the one name;
\* and the subprogram foo whose ranges list is (0x100, 0x200) after the
\* sentinel gives the output [{start: 256, end: 512, name: foo}].
C4_Additive ==
    /\ [][pc = "finish" /\ Truthy(name') =>
            LET d == dies[i]
                direct == IF HasWidth(d) THEN <<Range(d.low, d.high, name'[1])>> ELSE <<>>
                indirect == [k \in 1..Len(ValidPairSeq(d)) |->
                                Range(ValidPairSeq(d)[k][1], ValidPairSeq(d)[k][2], name'[1])]
            IN  NewFuncs = direct \o indirect]_vars
    /\ [](/\ pc = "done"
          /\ dr_file = ExampleDump
          /\ dies = <<[tag |-> "subprogram", off |-> 16, name |-> "foo",
                       ranges_off |-> 4096]>>
          => output[1].functions = <<Range(256, 512, "foo")>>)

\* an entry with low < high and two valid pairs in its ranges list gave three
\* ranges of one name
C4_Witness ==
    /\ pc = "done"
    /\ Len(dies) = 1
    /\ HasWidth(dies[1])
    /\ ValidPairs(dies[1]) = 2
    /\ Len(funcs) = 3
    /\ \A k \in 1..3 : funcs[k].name = funcs[1].name

\* ------------------------------------------------------------- C6
WellFormed(fs) == \A k \in 1..Len(fs) : fs[k].end > fs[k].start /\ fs[k].name # ""

\* C6: every range accumulated or printed has end > start and a name that is
\* not empty; an iteration of the emission loop that ends without a name adds
\* every emittable interval of its entry to miss_name and nothing to funcs,
\* and one that ends with a name leaves miss_name as it is.
C6_NamedRanges ==
    /\ [](WellFormed(funcs) /\ (output # None => WellFormed(output[1].functions)))
    /\ [][pc = "finish" =>
            LET n == ValidPairs(dies[i]) + (IF HasWidth(dies[i]) THEN 1 ELSE 0)
            IN  IF Truthy(name')
                THEN miss_name' = miss_name /\ Len(funcs') = Len(funcs) + n
                ELSE miss_name' = miss_name + n /\ funcs' = funcs]_vars

\* under the rename map obf -> "" an entry named obf with an emittable range
\* was counted and another entry gave a range
C6_Witness ==
    /\ pc = "done"
    /\ name_map = [obf |-> ""]
    /\ \E k \in 1..Len(dies) :
          dies[k].tag \in SubprogramLike /\ Get(dies[k], "name") = Some("obf")
              /\ HasWidth(dies[k])
    /\ miss_name > 0
    /\ funcs # <<>>

\* ------------------------------------------------------------- C7
Count(fs, x) == Cardinality({ k \in 1..Len(fs) : fs[k] = x })

Elems(fs) == { fs[k] : k \in 1..Len(fs) }

Sorted(fs) ==
    \A j, k \in 1..Len(fs) :
        j < k => \/ fs[j].start < fs[k].start
                 \/ fs[j].start = fs[k].start /\ fs[j].end <= fs[k].end

\* C7: the sort leaves a list that ascends by start and, for equal starts, by
\* end, in which every range occurs as many times as it was accumulated; that
\* list is the functions of the printed record.
C7_Sorted ==
    [][pc = "sort" =>
         /\ Sorted(funcs')
         /\ \A x \in Elems(funcs) \cup Elems(funcs') : Count(funcs', x) = Count(funcs, x)
         /\ output'[1].functions = funcs']_vars

\* the entry with the higher addresses came first, and the printed list holds
\* one range twice and two ranges of one start
C7_Witness ==
    /\ pc = "done"
    /\ Len(dies) = 2
    /\ ValidPairSeq(dies[1]) = << <<5, 7>> >>
    /\ HasWidth(dies[2]) /\ dies[2].low < 5
    /\ \E j, k \in 1..Len(funcs) : j # k /\ funcs[j] = funcs[k]
    /\ \E j, k \in 1..Len(funcs) :
          funcs[j].start = funcs[k].start /\ funcs[j].end # funcs[k].end
    /\ output[1].functions = funcs

\* ------------------------------------------------------------- C3
\* an entry of the emission loop that has something to emit
Emits(d) == d.tag \in SubprogramLike /\ (HasWidth(d) \/ ValidPairs(d) > 0)

\* d has no name of its own and its abstractOrigin is the offset of an entry
\* named n
OneHop(d, n) ==
    /\ "name" \notin DOMAIN d
    /\ "abs" \in DOMAIN d
    /\ d.abs \in DOMAIN dies_by_off
    /\ Get(dies_by_off[d.abs], "name") = Some(n)

\* C3: with demangling disabled, an entry with an emittable range and the
\* direct name n, or with no direct name and an abstractOrigin that leads in
\* one hop to an entry named n, is emitted under the replacement of n in the
\* rename map (n itself when n is not a key): every range it emits carries
\* that name, and it emits one unless that name is empty.
C3_Renamed ==
    [][(pc = "finish" /\ ~do_demangle /\ Emits(dies[i])) =>
         \A n \in {"obf", "Original", "foo", "$s4main3fooyyF"} :
             (Get(dies[i], "name") = Some(n) \/ OneHop(dies[i], n)) =>
                 (/\ MapGet(name_map, n) # "" => NewFuncs # <<>>
                  /\ \A k \in 1..Len(NewFuncs) : NewFuncs[k].name = MapGet(name_map, n))]_vars

\* ------------------------------------------------------------- C8
\* C8: when the external tool is invoked and the invocation fails (it raises
\* or exits with a status that is not 0), the name of the iteration is the
\* string the tool was given.
C8_FailureAbsorbed ==
    [][(pc = "finish" /\ out' # None /\ (out'[1].raised \/ out'[1].rc # 0)) =>
          name' = Some(MapGet(name_map,
                              (IF Truthy(ret) THEN ret ELSE Get(dies[i], "name"))[1]))]_vars

\* ------------------------------------------------------------- C2
\* the offsets entry d refers to
RefsOf(d) == { d[k] : k \in {"abs", "spec"} \cap DOMAIN d }

AllRefs == UNION { RefsOf(dies[k]) : k \in 1..Len(dies) }

\* the offsets of the index that a chain of references from the offsets S reaches
RECURSIVE Closure(_)
Closure(S) ==
    LET N == S \cup UNION { RefsOf(dies_by_off[o]) \cap DOMAIN dies_by_off : o \in S }
    IN  IF N = S THEN S ELSE Closure(N)

\* the entries on the chains of references that start at entry d, d included
ChainOf(d) ==
    {d} \cup { dies_by_off[o] : o \in Closure(RefsOf(d) \cap DOMAIN dies_by_off) }

NamesOn(ds) == { e.name : e \in { x \in ds : "name" \in DOMAIN x } }

\* how far a frame is from its return, its calls not counted
Rank(f) ==
    IF f.at = "entry" THEN 6
    ELSE IF f.at = "after" THEN 6 - 2 * f.k
    ELSE 7 - 2 * f.k

RECURSIVE RankSum(_)
RankSum(st) == IF st = <<>> THEN 0 ELSE Rank(st[1]) + RankSum(Tail(st))

\* what is left of the running call: the references not visited yet and the
\* frames on the stack
Variant(st, sn) == 6 * (Cardinality(AllRefs) - Cardinality(sn)) + RankSum(st)

\* C2: on any reference graph, cycles, self-references and dangling
\* references included, every step of resolve_name lowers a natural number
\* (so the call returns, no deeper than the number of references visited plus
\* one), and the call on an entry on whose chains no entry has a name returns
\* no name.
C2_Terminates ==
    /\ [][pc = "resolve" => Variant(stack', seen') < Variant(stack, seen)]_vars
    /\ [](/\ Variant(stack, seen) >= 0
          /\ seen \subseteq AllRefs
          /\ Len(stack) <= Cardinality(seen) + 1)
    /\ [](pc = "finish" /\ NamesOn(ChainOf(dies[i])) = {} => ret = None)

\* the call on an entry of a cycle of two entries without names, each the
\* abstractOrigin or the specification of the other, has returned no name
C2_Witness ==
    /\ pc = "finish"
    /\ ret = None
    /\ \E o \in RefsOf(dies[i]) \cap DOMAIN dies_by_off :
          /\ dies_by_off[o] # dies[i]
          /\ "off" \in DOMAIN dies[i]
          /\ Get(dies[i], "abs") = Some(o)
          /\ Get(dies_by_off[o], "spec") = Some(dies[i].off)
          /\ dies_by_off[dies[i].off] = dies[i]
    /\ seen # {}

\* ------------------------------------------------------------- C10
NoEmptyReplacement == \A n \in DOMAIN name_map : name_map[n] # ""

\* n and what the rename map makes of it when applied again and again
RECURSIVE Renamings(_, _)
Renamings(n, k) ==
    IF k = 0 THEN {n} ELSE {n} \cup Renamings(MapGet(name_map, n), k - 1)

\* link k of d is the offset of an entry of the index on whose chains an
\* entry has a name
LeadsToName(d, k) ==
    /\ k \in DOMAIN d
    /\ d[k] \in DOMAIN dies_by_off
    /\ NamesOn(ChainOf(dies_by_off[d[k]])) # {}

\* C10: under a rename map without an empty replacement, the top-level call
\* returns no name only if no entry on the chains of its entry has a name;
\* and for an entry without a name whose two links both lead to a name, the
\* name returned is a renaming of a name on the chains of its abstractOrigin
\* (the abstractOrigin's own name renamed twice, when it has one).
C10_SharedSeen ==
    (pc = "finish" /\ NoEmptyReplacement) =>
        LET d == dies[i] IN
        /\ ret = None => NamesOn(ChainOf(d)) = {}
        /\ ("name" \notin DOMAIN d /\ LeadsToName(d, "abs") /\ LeadsToName(d, "spec")) =>
              /\ ret # None
              /\ \E n \in NamesOn(ChainOf(dies_by_off[d.abs])) :
                    ret[1] \in Renamings(n, Len(dies) + 2)
              /\ "name" \in DOMAIN dies_by_off[d.abs] =>
                    ret[1] = MapGet(name_map, MapGet(name_map, dies_by_off[d.abs].name))

\* the call has returned a name for an entry whose abstractOrigin and
\* specification lead to names that no renaming makes equal
C10_Witness ==
    /\ pc = "finish"
    /\ NoEmptyReplacement
    /\ "name" \notin DOMAIN dies[i]
    /\ LeadsToName(dies[i], "abs") /\ LeadsToName(dies[i], "spec")
    /\ \A n \in NamesOn(ChainOf(dies_by_off[dies[i].abs])),
          m \in NamesOn(ChainOf(dies_by_off[dies[i].spec])) :
          Renamings(n, 3) \cap Renamings(m, 3) = {}
    /\ ret # None

=============================================================================
